---- MODULE Spec2Model ----
(***************************************************************************)
(* Mueller-matrix model of a dual channel polarimeter                      *)
(* (eppark/pyMuellerMatSystem): manual_mm.py and final_offline_mm.py.      *)
(*                                                                         *)
(* Number representation.  The programs compute in floating point; the     *)
(* model computes exactly, on a grid where the values are rational:        *)
(*   - an angle in radians is an integer count of pi/8 (22.5 degrees);     *)
(*   - an angle in degrees is an integer count of hundredths of a degree;  *)
(*   - Stokes parameters of manual_mm are integers in units of 1/200, so   *)
(*     [1, 0.1, 0.05, 0] is <<200, 20, 10, 0>> and every entry is even;    *)
(*   - a value that the code obtains by division is a rational [n, d].     *)
(* Python indices are 0-based, the model's are 1-based.                    *)
(***************************************************************************)
EXTENDS Integers, Sequences, FiniteSets, TLC

VARIABLES
    \* manual_mm.main
    pc,        \* position of main: "menu", "a_input", "a_plot", "b_input", "b_solve", "done", "crashed"
    find,      \* the last menu choice
    stokes,    \* the Stokes vector entered in option a
    woll,      \* [pos, neg] returned by wollaston
    data,      \* the points computed by plot_wollaston while its plot is shown
    values,    \* the samples entered in option b
    result,    \* the outcome of on_sky
    truth,     \* the on-sky Stokes vector the entered intensities were measured from
    \* the rotator t on its own
    rotPc, rotA, rotM, rotOut,
    \* final_offline_mm (main shares pc, find, stokes, woll, data, values, result)
    master,    \* the properties of the elements of master_sys_mm
    sys_mm,    \* the properties of the local system of the running function
    m_system,  \* on_sky: the design matrix built so far
    i_vec,     \* on_sky: the intensity vector i built so far
    noise,     \* fit_model: the signal-to-noise ratio
    th,        \* fit_model: the position in the list hwp
    stokes_i,  \* fit_model: stokes_i[str(theta)] of the current theta
    stokes_f,  \* fit_model: stokes_f[str(theta)] of the current theta
    noisy_f,   \* fit_model: the noisy intensities of the current theta
    estimate,  \* fit_model: the estimates of the HWP angles done
    nfev,      \* curve_fit: the calls of system made for the current theta
    I_sys,     \* system: the list I it returned last
    report,    \* fit_model: the means and the percent errors
    targets,   \* option c: the targets entered
    hk,        \* track_plot: the position in the list hwp_angles
    angle_plot \* track_plot: the data of the targets done at the current HWP angle

mvars == <<pc, find, stokes, woll, data, values, result, truth>>
rvars == <<rotPc, rotA, rotM, rotOut>>
svars == <<master, sys_mm, m_system, i_vec>>
fvars == <<noise, th, stokes_i, stokes_f, noisy_f, estimate, nfev, I_sys, report>>
tvars == <<targets, hk, angle_plot>>
ovars == <<svars, fvars, tvars>>
vars == <<mvars, rvars, ovars>>

(***************************************************************************)
(* Bounds and input sets                                                   *)
(***************************************************************************)
\* the most samples entered in one run of option b
MaxSamples == 4

\* HWP angles a user enters, in hundredths of a degree: 0, 22.5, 45 and 67.5 degrees
HwpDegrees == {0, 2250, 4500, 6750}
\* parallactic angles a user enters, in hundredths of a degree
SkyDegrees == {0, 2250}

\* Stokes vectors a user enters in option a, in units of 1/200
StokesSet == { <<200, 20, 10, 0>>, <<200, -60, 80, 0>>, <<200, 0, 0, 40>> }

\* on-sky Stokes vectors the samples of option b are measured from
TruthSet == { <<200, 20, 10, 0>>, <<200, -60, 80, 40>> }

\* lines typed at the Stokes prompt, already split into tokens
StokesLines == StokesSet \cup { <<200, 20, 10>>, <<200, 20, 10, 0, 0>> }

\* the grid of rotation angles, in units of pi/8
Grid == 0..15

NoVec == <<0, 0, 0, 0>>

(***************************************************************************)
(* Linear algebra (numpy)                                                  *)
(***************************************************************************)
RECURSIVE SumTo(_, _)
SumTo(f, n) == IF n = 0 THEN 0 ELSE f[n] + SumTo(f, n - 1)

Dot4(u, v) == u[1] * v[1] + u[2] * v[2] + u[3] * v[3] + u[4] * v[4]

Col(M, j) == [k \in 1..4 |-> M[k][j]]

\* A @ B for 4x4 matrices
MatMul(A, B) == [r \in 1..4 |-> [c \in 1..4 |-> Dot4(A[r], Col(B, c))]]

\* A @ v for a 4x4 matrix and a column vector
MatVec(A, v) == [r \in 1..4 |-> Dot4(A[r], v)]

\* 0.5 * v; every vector it is used on has even entries
Half(v) == [k \in 1..4 |-> v[k] \div 2]

Rem(k, r) == IF k < r THEN k ELSE k + 1

Minor(M, r, c) == [a \in 1..3 |-> [b \in 1..3 |-> M[Rem(a, r)][Rem(b, c)]]]

Det3(M) ==
    M[1][1] * (M[2][2] * M[3][3] - M[2][3] * M[3][2])
    - M[1][2] * (M[2][1] * M[3][3] - M[2][3] * M[3][1])
    + M[1][3] * (M[2][1] * M[3][2] - M[2][2] * M[3][1])

Cof(M, r, c) == (IF (r + c) % 2 = 0 THEN 1 ELSE -1) * Det3(Minor(M, r, c))

Det4(M) == SumTo([c \in 1..4 |-> M[1][c] * Cof(M, 1, c)], 4)

Adj(M) == [r \in 1..4 |-> [c \in 1..4 |-> Cof(M, c, r)]]

\* numpy.linalg.inv: raises LinAlgError on a singular matrix, else the inverse,
\* held as the adjugate over the determinant
inv(M) ==
    IF Det4(M) = 0
    THEN [kind |-> "LinAlgError", num |-> <<>>, den |-> 0]
    ELSE [kind |-> "ok", num |-> Adj(M), den |-> Det4(M)]

(***************************************************************************)
(* Trigonometry (math), exact on multiples of pi/2                         *)
(***************************************************************************)
\* math.cos of u * pi/8 radians
math_cos(u) ==
    CASE u % 16 = 0 -> 1
      [] u % 16 = 8 -> -1
      [] u % 16 \in {4, 12} -> 0

\* math.sin of u * pi/8 radians
math_sin(u) ==
    CASE u % 16 = 4 -> 1
      [] u % 16 = 12 -> -1
      [] u % 16 \in {0, 8} -> 0

\* math.radians: hundredths of a degree to units of pi/8 (22.5 degrees)
math_radians(d) == d \div 2250

\* math.pi / 2 and math.pi in units of pi/8
HalfPi == 4
Pi == 8

(***************************************************************************)
(* manual_mm: the Mueller matrices                                         *)
(***************************************************************************)
m(theta, phi) ==
    << <<1, -math_cos(2 * theta), 0, 0>>,
       <<-math_cos(2 * theta), 1, 0, 0>>,
       <<0, 0, math_sin(2 * theta) * math_cos(phi), math_sin(2 * theta) * math_sin(phi)>>,
       <<0, 0, -math_sin(2 * theta) * math_sin(theta), math_sin(2 * theta) * math_cos(phi)>> >>

\* a plausible slip: the sine terms of the rotation with the same sign
t_symmetric(angle) ==
    << <<1, 0, 0, 0>>,
       <<0, math_cos(4 * angle), math_sin(4 * angle), 0>>,
       <<0, math_sin(4 * angle), math_cos(4 * angle), 0>>,
       <<0, 0, 0, 1>> >>

\* a plausible slip: the wrong multiple of the angle
t_8a(angle) ==
    << <<1, 0, 0, 0>>,
       <<0, math_cos(8 * angle), math_sin(8 * angle), 0>>,
       <<0, -math_sin(8 * angle), math_cos(8 * angle), 0>>,
       <<0, 0, 0, 1>> >>

t(angle) ==
    << <<1, 0, 0, 0>>,
       <<0, math_cos(4 * angle), math_sin(4 * angle), 0>>,
       <<0, -math_sin(4 * angle), math_cos(4 * angle), 0>>,
       <<0, 0, 0, 1>> >>

m_woll_pos == m(HalfPi, 0)
m_woll_neg == m(Pi, 0)

\* a plausible slip: both beams computed with the same prism matrix
wollaston_same(s) == << Half(MatVec(m_woll_pos, s)), Half(MatVec(m_woll_pos, s)) >>

wollaston(s) == << Half(MatVec(m_woll_pos, s)), Half(MatVec(m_woll_neg, s)) >>

\* plot_wollaston: I1 and I2 at one angle of the sweep
beams_at(angle, s) ==
    << Half(MatVec(MatMul(m_woll_pos, t(angle)), s)),
       Half(MatVec(MatMul(m_woll_neg, t(angle)), s)) >>

\* plot_wollaston: the points (angle, I1[0] - I2[0]); the sweep
\* np.arange(0, 2 * pi, 0.001) is sampled on the grid
plot_wollaston(s) ==
    [a \in Grid |-> beams_at(a, s)[1][1] - beams_at(a, s)[2][1]]

(***************************************************************************)
(* manual_mm.on_sky                                                        *)
(***************************************************************************)
\* a plausible change: row1 without the rotation by the parallactic angle
row1x2_hwp_only(v) == MatMul(m_woll_pos, t(v[3]))[1]

\* 2 * row1 and 2 * row2 of one sample <<I_1, I_2, hwp, sky>>: the entries
\* of 0.5 * (m_woll @ t(hwp) @ t(sky)) are multiples of 1/2, so the design
\* matrix is held doubled
row1x2(v) == MatMul(MatMul(m_woll_pos, t(v[3])), t(v[4]))[1]
row2x2(v) == MatMul(MatMul(m_woll_neg, t(v[3])), t(v[4]))[1]

\* a plausible change: the rows of one beam appended after all the rows of
\* the other beam
m_system_blocks(vals) ==
    [r \in 1..(2 * Len(vals)) |->
        IF r <= Len(vals) THEN row1x2(vals[r]) ELSE row2x2(vals[r - Len(vals)])]

\* 2 * m_system: rows 2j-1 and 2j come from sample j
m_system_x2(vals) ==
    [r \in 1..(2 * Len(vals)) |->
        IF r % 2 = 1 THEN row1x2(vals[(r + 1) \div 2]) ELSE row2x2(vals[r \div 2])]

\* the intensity vector i
i_vector(vals) ==
    [r \in 1..(2 * Len(vals)) |->
        IF r % 2 = 1 THEN vals[(r + 1) \div 2][1] ELSE vals[r \div 2][2]]

\* 4 * (transpose(m_system) @ m_system)
normal_x4(A) ==
    [r \in 1..4 |-> [c \in 1..4 |->
        SumTo([k \in 1..Len(A) |-> A[k][r] * A[k][c]], Len(A))]]

\* 2 * (transpose(m_system) @ i)
rhs_x2(A, b) ==
    [r \in 1..4 |-> SumTo([k \in 1..Len(A) |-> A[k][r] * b[k]], Len(A))]

\* the least-squares solution as num / den:
\* inv(N4 / 4) @ (c2 / 2) = 2 * adj(N4) @ c2 / det(N4)
solve(inverse, A, b) ==
    IF inverse.kind = "LinAlgError"
    THEN [kind |-> "LinAlgError", num |-> NoVec, den |-> 0]
    ELSE [kind |-> "stokes",
          num |-> [k \in 1..4 |-> 2 * Dot4(inverse.num[k], rhs_x2(A, b))],
          den |-> inverse.den]

\* a plausible change: a pseudo-inverse in place of inv, which returns a
\* vector (here the zero vector) for a singular system too
on_sky_pinv(vals) ==
    LET A == m_system_x2(vals)
        r == solve(inv(normal_x4(A)), A, i_vector(vals))
    IN  IF r.kind = "LinAlgError" THEN [kind |-> "stokes", num |-> NoVec, den |-> 1] ELSE r

on_sky(vals) ==
    LET A == m_system_x2(vals)
    IN  solve(inv(normal_x4(A)), A, i_vector(vals))

\* the intensities a noiseless instrument measures for on-sky Stokes vector s
\* at HWP angle hwp and parallactic angle sky (radians): the rows of on_sky
\* applied to s
measured(s, hwp, sky) ==
    << Dot4(row1x2(<<0, 0, hwp, sky>>), s) \div 2,
       Dot4(row2x2(<<0, 0, hwp, sky>>), s) \div 2 >>

(***************************************************************************)
(* manual_mm.main                                                          *)
(***************************************************************************)
NoResult == [kind |-> "none", num |-> NoVec, den |-> 0]

InitManual ==
    /\ pc = "menu"
    /\ find = ""
    /\ stokes = <<>>
    /\ woll = <<NoVec, NoVec>>
    /\ data = <<>>
    /\ values = <<>>
    /\ result = NoResult
    /\ truth \in TruthSet

RotIdle ==
    /\ rotPc = "idle"
    /\ rotA = 0
    /\ rotM = <<>>
    /\ rotOut = <<>>

FitIdle ==
    /\ noise = 0
    /\ th = 0
    /\ stokes_i = <<>>
    /\ stokes_f = <<>>
    /\ noisy_f = <<>>
    /\ estimate = <<>>
    /\ nfev = 0
    /\ I_sys = <<>>
    /\ report = <<>>

TrackIdle ==
    /\ targets = <<>>
    /\ hk = 0
    /\ angle_plot = <<>>

OfflineIdle ==
    /\ master = <<>>
    /\ sys_mm = <<>>
    /\ m_system = <<>>
    /\ i_vec = <<>>
    /\ FitIdle
    /\ TrackIdle

\* str.lower() on the one-letter answers of the prompts
lower(answer) ==
    CASE answer = "A" -> "a"
      [] answer = "B" -> "b"
      [] answer = "C" -> "c"
      [] answer = "D" -> "d"
      [] answer = "E" -> "e"
      [] OTHER -> answer

\* the menu prompt: find = input(...).lower(); after "c" the loop ends and
\* "Program ended." is printed
Menu(choice) ==
    /\ pc = "menu"
    /\ find' = lower(choice)
    /\ pc' = CASE find' = "a" -> "a_input"
               [] find' = "b" -> "b_input"
               [] find' = "c" -> "done"
               [] OTHER -> "menu"
    /\ values' = IF find' = "b" THEN <<>> ELSE values
    /\ result' = IF find' = "b" THEN NoResult ELSE result
    /\ stokes' = IF find' = "a" THEN <<>> ELSE stokes
    /\ UNCHANGED <<woll, data, truth>>

\* option a: one pass of the loop that asks for the Stokes parameters, and
\* after four tokens the call of wollaston
EnterStokes(line) ==
    /\ pc = "a_input"
    /\ IF Len(line) # 4
       THEN /\ stokes' = line
            /\ UNCHANGED <<pc, woll>>
       ELSE /\ stokes' = line
            /\ woll' = wollaston(line)
            /\ pc' = "a_plot"
    /\ UNCHANGED <<find, data, values, result, truth>>

\* option a: the plot question; plot_wollaston computes its points and
\* plt.show() holds the program until the window is closed.  The locals of
\* an option are dropped when the option ends: nothing reads them afterwards.
PlotChoice(plot) ==
    /\ pc = "a_plot"
    /\ IF plot = "y"
       THEN /\ data' = plot_wollaston(stokes)
            /\ pc' = "a_show"
            /\ UNCHANGED <<stokes, woll>>
       ELSE /\ pc' = "menu"
            /\ stokes' = <<>>
            /\ woll' = <<NoVec, NoVec>>
            /\ UNCHANGED data
    /\ UNCHANGED <<find, values, result, truth>>

\* option a: the plot window is closed and plot_wollaston returns
ClosePlot ==
    /\ pc = "a_show"
    /\ pc' = "menu"
    /\ data' = <<>>
    /\ stokes' = <<>>
    /\ woll' = <<NoVec, NoVec>>
    /\ UNCHANGED <<find, values, result, truth>>

\* option b: one pass of the loop that reads a sample
AddSample(hwpdeg, skydeg, cont) ==
    /\ pc = "b_input"
    /\ Len(values) < MaxSamples
    /\ LET hwp == math_radians(hwpdeg)
           sky == math_radians(skydeg)
           I == measured(truth, hwp, sky)
       IN  values' = Append(values, <<I[1], I[2], hwp, sky>>)
    /\ pc' = IF cont = "y" /\ Len(values) + 1 < MaxSamples THEN "b_input" ELSE "b_solve"
    /\ UNCHANGED <<find, stokes, woll, data, result, truth>>

\* option b: print(on_sky(values)); a LinAlgError is not caught and ends main
Solve ==
    /\ pc = "b_solve"
    /\ result' = on_sky(values)
    /\ pc' = IF result'.kind = "LinAlgError" THEN "crashed" ELSE "menu"
    /\ UNCHANGED <<find, stokes, woll, data, values, truth>>

NextManual ==
    \/ \E choice \in {"a", "b", "c", "C", "x"} : Menu(choice) /\ UNCHANGED <<rvars, ovars>>
    \/ \E line \in StokesLines : EnterStokes(line) /\ UNCHANGED <<rvars, ovars>>
    \/ \E plot \in {"y", "n"} : PlotChoice(plot) /\ UNCHANGED <<rvars, ovars>>
    \/ ClosePlot /\ UNCHANGED <<rvars, ovars>>
    \/ \E h \in HwpDegrees, s \in SkyDegrees, cont \in {"y", "n"} :
          AddSample(h, s, cont) /\ UNCHANGED <<rvars, ovars>>
    \/ Solve /\ UNCHANGED <<rvars, ovars>>

InitManualAll == InitManual /\ RotIdle /\ OfflineIdle

SpecManual == InitManualAll /\ [][NextManual]_vars

(***************************************************************************)
(* The rotator t on its own: t(a) applied to a matrix, then t(-a)          *)
(***************************************************************************)
\* rotation angles run over -MaxTurn..MaxTurn, in units of pi/8
MaxTurn == 8

RotAngles == (0 - MaxTurn)..MaxTurn

RotMatrices ==
    { << <<1, 0, 0, 0>>, <<0, 1, 0, 0>>, <<0, 0, 1, 0>>, <<0, 0, 0, 1>> >>,
      << <<1, 2, 3, 4>>, <<5, 6, 7, 8>>, <<9, 10, 11, 12>>, <<13, 14, 15, 16>> >>,
      << <<2, 0, -1, 0>>, <<0, 3, 0, 5>>, <<-7, 0, 0, 1>>, <<0, 0, 4, 0>> >>,
      m_woll_pos }

ManualIdle ==
    /\ pc = "idle"
    /\ find = ""
    /\ stokes = <<>>
    /\ woll = <<NoVec, NoVec>>
    /\ data = <<>>
    /\ values = <<>>
    /\ result = NoResult
    /\ truth = NoVec

InitRot ==
    /\ rotPc = "start"
    /\ rotA \in RotAngles
    /\ rotM \in RotMatrices
    /\ rotOut = rotM

\* t(a) @ M
Rotate ==
    /\ rotPc = "start"
    /\ rotOut' = MatMul(t(rotA), rotM)
    /\ rotPc' = "rotated"
    /\ UNCHANGED <<rotA, rotM>>

\* t(-a) @ (t(a) @ M)
RotateBack ==
    /\ rotPc = "rotated"
    /\ rotOut' = MatMul(t(0 - rotA), rotOut)
    /\ rotPc' = "back"
    /\ UNCHANGED <<rotA, rotM>>

NextRot ==
    \/ Rotate /\ UNCHANGED <<mvars, ovars>>
    \/ RotateBack /\ UNCHANGED <<mvars, ovars>>

InitRotAll == InitRot /\ ManualIdle /\ OfflineIdle

SpecRot == InitRotAll /\ [][NextRot]_vars

(***************************************************************************)
(* final_offline_mm: the systems of pyMuellerMat elements                  *)
(*                                                                         *)
(* An angle is a record [v, u]: the number v the program holds and the     *)
(* unit u that number is in, "deg" (v in hundredths of a degree) or "rad"  *)
(* (v in units of pi/8).  The elements HalfwaveRetarder, Rotator and       *)
(* DiattenuatorRetarder read their angles as degrees.  evaluate() is       *)
(* library code: the model keeps, for every evaluation, the properties it  *)
(* was made with.                                                          *)
(***************************************************************************)
Deg(x) == [v |-> x, u |-> "deg"]

\* np.radians of a number of degrees
np_radians(x) == [v |-> x.v \div 2250, u |-> "rad"]

\* np.degrees of a number of radians
np_degrees(x) == [v |-> x.v * 2250, u |-> "deg"]

\* cmm.DiattenuatorRetarder() as constructed
DiattenuatorRetarder == [theta |-> Deg(0), epsilon |-> 0, phi |-> Deg(0)]

\* master_sys_mm as constructed
master_sys_mm ==
    [beam |-> "o", derotator |-> DiattenuatorRetarder, hwp_theta |-> Deg(0),
     m3 |-> DiattenuatorRetarder, pa |-> Deg(0)]

\* SystemMuellerMatrix([WollastonPrism(), HWP(), Rotator()]) as constructed
local_sys_mm == [beam |-> "o", hwp_theta |-> Deg(0), pa |-> Deg(0)]

NoSys == <<>>

\* sys_mm.evaluate(): the system matrix of the current properties
evaluate(sys) == [mm |-> sys]

\* row[0] of an evaluated system matrix
first_row(M) == [row0 |-> M.mm]

\* (evaluate() @ stokes)[0]
intensity(M, s) == [mm |-> M.mm, stokes |-> s]

(***************************************************************************)
(* final_offline_mm.main: the menu, options a and b                        *)
(***************************************************************************)
\* the most samples entered in one run of option b of final_offline_mm
MaxOfflineSamples == 2

OfflineHwpDegrees == {0, 4500}
OfflineSkyDegrees == {0, 2250}
IntensityPairs == { <<55, 45>>, <<45, 55>> }

InitOffline ==
    /\ pc = "menu"
    /\ find = ""
    /\ stokes = <<>>
    /\ woll = <<>>
    /\ data = <<>>
    /\ values = <<>>
    /\ result = NoResult
    /\ truth = NoVec
    /\ master = master_sys_mm
    /\ sys_mm = NoSys
    /\ m_system = <<>>
    /\ i_vec = <<>>
    /\ FitIdle
    /\ TrackIdle

offline_Menu(choice) ==
    /\ pc = "menu"
    /\ find' = lower(choice)
    /\ pc' = CASE find' = "a" -> "a_input"
               [] find' = "b" -> "b_input"
               [] find' = "c" -> "c_input"
               [] find' = "d" -> "d_input"
               [] find' = "e" -> "done"
               [] OTHER -> "menu"
    /\ values' = IF find' = "b" THEN <<>> ELSE values
    /\ result' = IF find' = "b" THEN NoResult ELSE result
    /\ stokes' = IF find' = "a" THEN <<>> ELSE stokes
    /\ UNCHANGED <<woll, data, truth, ovars>>

\* wollaston(stokes) of final_offline_mm: a local system of a prism and an HWP
offline_wollaston(s) ==
    LET sys == [beam |-> "o", hwp_theta |-> Deg(0)]
    IN  << intensity(evaluate([sys EXCEPT !.beam = "o"]), s),
           intensity(evaluate([sys EXCEPT !.beam = "e"]), s) >>

\* plot_wollaston(stokes) of final_offline_mm: per angle of the sweep, the
\* HWP angle written and the two intensities
offline_plot_wollaston(s) ==
    [a \in Grid |->
        LET sys == [beam |-> "o", hwp_theta |-> np_degrees([v |-> a, u |-> "rad"])]
        IN  [theta |-> sys.hwp_theta,
             I1 |-> intensity(evaluate([sys EXCEPT !.beam = "o"]), s),
             I2 |-> intensity(evaluate([sys EXCEPT !.beam = "e"]), s)]]

\* option a with a loop that only asks again for fewer than four tokens
offline_EnterStokes_at_least(line) ==
    /\ pc = "a_input"
    /\ IF Len(line) < 4
       THEN /\ stokes' = line
            /\ UNCHANGED <<pc, woll>>
       ELSE /\ stokes' = line
            /\ woll' = offline_wollaston(line)
            /\ pc' = "a_plot"
    /\ UNCHANGED <<tvars, find, data, values, result, truth, ovars>>

\* option a of final_offline_mm: one pass of the loop
\* while len(stokes) != 4, and after four tokens the call of wollaston
offline_EnterStokes(line) ==
    /\ pc = "a_input"
    /\ IF Len(line) # 4
       THEN /\ stokes' = line
            /\ UNCHANGED <<pc, woll>>
       ELSE /\ stokes' = line
            /\ woll' = offline_wollaston(line)
            /\ pc' = "a_plot"
    /\ UNCHANGED <<tvars, find, data, values, result, truth, ovars>>

offline_PlotChoice(plot) ==
    /\ pc = "a_plot"
    /\ IF plot = "y"
       THEN /\ data' = offline_plot_wollaston(stokes)
            /\ sys_mm' = [beam |-> "e", hwp_theta |-> data'[15].theta, pa |-> Deg(0)]
            /\ pc' = "a_show"
            /\ UNCHANGED <<stokes, woll>>
       ELSE /\ pc' = "menu"
            /\ stokes' = <<>>
            /\ woll' = <<>>
            /\ UNCHANGED <<data, sys_mm>>
    /\ UNCHANGED <<tvars, find, values, result, truth, master, m_system, i_vec, fvars>>

offline_ClosePlot ==
    /\ pc = "a_show"
    /\ pc' = "menu"
    /\ data' = <<>>
    /\ stokes' = <<>>
    /\ woll' = <<>>
    /\ sys_mm' = NoSys
    /\ UNCHANGED <<tvars, find, values, result, truth, master, m_system, i_vec, fvars>>

\* option b: one pass of the loop that reads a sample; after the last one
\* on_sky starts with an empty i and m_system and a fresh local system
offline_AddSample(I, hwpdeg, skydeg, cont) ==
    /\ pc = "b_input"
    /\ Len(values) < MaxOfflineSamples
    /\ values' = Append(values, <<I[1], I[2], np_radians(Deg(hwpdeg)), np_radians(Deg(skydeg))>>)
    /\ IF cont = "y" /\ Len(values) + 1 < MaxOfflineSamples
       THEN UNCHANGED <<pc, sys_mm>>
       ELSE pc' = "b_rows" /\ sys_mm' = local_sys_mm
    /\ m_system' = <<>>
    /\ i_vec' = <<>>
    /\ UNCHANGED <<tvars, find, stokes, woll, data, result, truth, master, fvars>>

\* on_sky: one pass of the loop over the samples
on_sky_row ==
    /\ pc = "b_rows"
    /\ LET j == Len(m_system) \div 2 + 1
           at == [sys_mm EXCEPT !.hwp_theta = values[j][3], !.pa = values[j][4]]
           row1 == evaluate([at EXCEPT !.beam = "o"])
           row2 == evaluate([at EXCEPT !.beam = "e"])
       IN  /\ sys_mm' = [at EXCEPT !.beam = "e"]
           /\ i_vec' = i_vec \o <<values[j][1], values[j][2]>>
           /\ m_system' = m_system \o <<first_row(row1), first_row(row2)>>
           /\ pc' = IF j = Len(values) THEN "b_inv" ELSE "b_rows"
    /\ UNCHANGED <<tvars, find, stokes, woll, data, values, result, truth, master, fvars>>

\* on_sky: the normal equations; inv either raises LinAlgError, which ends
\* main, or returns, and the vector is printed.  Which one is decided by
\* the library matrices in floating point, so both are possible outcomes.
on_sky_inv(outcome) ==
    /\ pc = "b_inv"
    /\ result' = [kind |-> outcome, num |-> NoVec, den |-> 0]
    /\ pc' = IF outcome = "LinAlgError" THEN "crashed" ELSE "pause"
    /\ sys_mm' = NoSys
    /\ UNCHANGED <<tvars, find, stokes, woll, data, values, truth, master, m_system, i_vec, fvars>>

\* input("-----...") at the end of options b, c and d.  The locals of an
\* option are dropped when the option ends: nothing reads them afterwards.
offline_Pause ==
    /\ pc = "pause"
    /\ pc' = "menu"
    /\ values' = <<>>
    /\ result' = NoResult
    /\ m_system' = <<>>
    /\ i_vec' = <<>>
    /\ noise' = 0
    /\ th' = 0
    /\ stokes_i' = <<>>
    /\ stokes_f' = <<>>
    /\ noisy_f' = <<>>
    /\ estimate' = <<>>
    /\ nfev' = 0
    /\ I_sys' = <<>>
    /\ report' = <<>>
    /\ targets' = <<>>
    /\ hk' = 0
    /\ angle_plot' = <<>>
    /\ UNCHANGED <<find, stokes, woll, data, truth, master, sys_mm>>

(***************************************************************************)
(* final_offline_mm: system and fit_model                                  *)
(*                                                                         *)
(* Diattenuations and polarization fractions are in units of 1e-4, the     *)
(* values of np.cos and np.sin are in units of 1e-4 (rounded), so the      *)
(* entries of a Stokes vector of fit_model are in units of 1e-8.           *)
(***************************************************************************)
\* the catalog polarization fractions
p == <<61, 142, 157>>

\* the parallactic angles and altitudes of the three standards: the values
\* of the two formulas on rad, decd and keck, in hundredths of a degree
angles == << Deg(8902), Deg(8889), Deg(8189) >>
altitudes == << Deg(3248), Deg(3268), Deg(2998) >>

\* the HWP angles of fit_model: 0, 22.5, 45 and 60
hwp == <<0, 2250, 4500, 6000>>

derotator_d_i == 9662
derotator_r_i == 18660
m3_d_i == 9761
m3_r_i == 18660

\* np.cos and np.sin of a number x given in hundredths: the number is
\* read as radians (0, 45, 90 and 120 radians)
np_cos(x) ==
    CASE x = 0 -> 10000
      [] x = 4500 -> 5253
      [] x = 9000 -> -4481
      [] x = 12000 -> 8142

np_sin(x) ==
    CASE x = 0 -> 0
      [] x = 4500 -> 8509
      [] x = 9000 -> 8940
      [] x = 12000 -> 5806

\* a plausible change: np.tile, which repeats the whole list
np_tile2(a) == [n \in 1..(2 * Len(a)) |-> a[((n - 1) % Len(a)) + 1]]

\* np.repeat(a, 2, axis=0)
np_repeat2(a) == [n \in 1..(2 * Len(a)) |-> a[(n + 1) \div 2]]

\* rationals n / d in lowest terms for the values obtained by division;
\* d = 0 stands for the inf (n = 1 or -1) or nan (n = 0) of a floating-point
\* division by zero
Abs(x) == IF x < 0 THEN 0 - x ELSE x

RECURSIVE GCD(_, _)
GCD(a, b) == IF b = 0 THEN a ELSE GCD(b, a % b)

Sign(x) == IF x < 0 THEN -1 ELSE IF x > 0 THEN 1 ELSE 0

Rat(n, d) ==
    IF d = 0
    THEN [n |-> Sign(n), d |-> 0]
    ELSE LET g == GCD(Abs(n), Abs(d))
         IN  [n |-> (Sign(d) * n) \div g, d |-> Abs(d) \div g]

RSub(a, b) == Rat(a.n * b.d - b.n * a.d, a.d * b.d)
RDiv(a, b) == Rat(a.n * b.d, a.d * b.n)
RTimes(a, k) == Rat(a.n * k, a.d)
RAbs(a) == Rat(Abs(a.n), a.d)
REq(a, b) == a = b
RLeq(a, b) == a.d > 0 /\ b.d > 0 /\ a.n * b.d <= b.n * a.d

\* np.mean of column k of estimate
np_mean(est, k) == Rat(SumTo([j \in 1..Len(est) |-> est[j][k]], Len(est)), Len(est))

\* parameter vectors (dd, dr, md, mr) the optimizer may try or return
ParamSet ==
    { <<9662, 18660, 9761, 18660>>, <<0, 0, 0, 0>>, <<10000, 36000, 10000, 36000>>,
      <<9000, 20000, 9900, 17000>>, <<36000, 10000, 36000, 10000>>, <<12000, 40000, 12000, 40000>> }

\* a plausible slip: the upper bounds in the wrong order
bounds_upper_swapped == <<36000, 10000, 36000, 10000>>

\* bounds=(0, (1, 360, 1, 360)): the lower bound 0 for every parameter
bounds_lower == <<0, 0, 0, 0>>
bounds_upper == <<10000, 36000, 10000, 36000>>

\* curve_fit with bounds evaluates system at, and returns, points of the box
Feasible == { c \in ParamSet : \A k \in 1..4 : bounds_lower[k] <= c[k] /\ c[k] <= bounds_upper[k] }

\* signal-to-noise ratios a user enters
NoiseInputs == {50, 100}

\* the most calls of system that curve_fit makes for one HWP angle
MaxCalls == 2

\* the master system while the loop of fit_model or system is at target j
\* and beam b
at_target(sys, j, b) ==
    [sys EXCEPT !.pa = angles[j], !.m3.theta = altitudes[j], !.beam = b]

\* fit_model: the original values written to the derotator and to m3
fit_start(snr) ==
    /\ pc = "d_input"
    /\ noise' = snr
    /\ master' = [master EXCEPT
                    !.derotator = [theta |-> Deg(0), epsilon |-> derotator_d_i, phi |-> Deg(derotator_r_i)],
                    !.m3 = [theta |-> Deg(0), epsilon |-> m3_d_i, phi |-> Deg(m3_r_i)]]
    /\ estimate' = <<>>
    /\ th' = 1
    /\ pc' = "d_theta"
    /\ UNCHANGED <<tvars, find, stokes, woll, data, values, result, truth, sys_mm, m_system, i_vec,
                   stokes_i, stokes_f, noisy_f, nfev, I_sys, report>>

\* a plausible change: the loop over hwp without the lines that initialize
\* the system
reset_skipped(sys) == sys

\* fit_model, the start of a pass of the loop over hwp: the system is
\* initialized again
reset_system(sys) ==
    [sys EXCEPT !.derotator.epsilon = derotator_d_i, !.derotator.phi = Deg(derotator_r_i),
                !.m3.epsilon = m3_d_i, !.m3.phi = Deg(m3_r_i)]

\* fit_model: the initial Stokes values of the three targets at HWP angle theta
initial_stokes(theta) ==
    [k \in 1..3 |-> <<100000000, p[k] * np_cos(2 * theta), p[k] * np_sin(2 * theta), 0>>]

\* fit_model, one pass of the loop over hwp up to the call of curve_fit:
\* the initial Stokes values, the noiseless intensities and the noisy ones
fit_forward ==
    /\ pc = "d_theta"
    /\ LET theta == hwp[th]
           sys == [reset_system(master) EXCEPT !.hwp_theta = Deg(theta)]
           si == initial_stokes(theta)
           sf == [n \in 1..6 |->
                    intensity(evaluate(at_target(sys, (n + 1) \div 2, IF n % 2 = 1 THEN "o" ELSE "e")),
                              si[(n + 1) \div 2])]
       IN  /\ stokes_i' = si
           /\ stokes_f' = sf
           /\ noisy_f' = [n \in 1..6 |-> [mean |-> sf[n], sd |-> [num |-> sf[n], den |-> noise]]]
           /\ master' = at_target(sys, 3, "e")
    /\ nfev' = 0
    /\ I_sys' = <<>>
    /\ pc' = "d_fit"
    /\ UNCHANGED <<tvars, find, stokes, woll, data, values, result, truth, sys_mm, m_system, i_vec,
                   noise, th, estimate, report>>

\* a plausible change: the altitude written to the derotator in place of m3
system_call_derotator_alt(c) ==
    /\ pc = "d_fit"
    /\ nfev < MaxCalls
    /\ LET x == np_repeat2(stokes_i)
           pas == np_repeat2(angles)
           alts == np_repeat2(altitudes)
           sys == [master EXCEPT !.derotator.epsilon = c[1], !.derotator.phi = Deg(c[2]),
                                 !.m3.epsilon = c[3], !.m3.phi = Deg(c[4])]
           at(n) == [sys EXCEPT !.pa = pas[n], !.derotator.theta = alts[n],
                                !.beam = IF (n - 1) % 2 = 0 THEN "o" ELSE "e"]
       IN  /\ I_sys' = [n \in 1..6 |-> intensity(evaluate(at(n)), x[n])]
           /\ master' = at(6)
    /\ nfev' = nfev + 1
    /\ UNCHANGED <<tvars, pc, find, stokes, woll, data, values, result, truth, sys_mm, m_system, i_vec,
                   noise, th, stokes_i, stokes_f, noisy_f, estimate, report>>

\* system(x, dd, dr, md, mr) as curve_fit calls it, x being
\* np.repeat(stokes_i[str(theta)], 2, axis=0)
system_call(c) ==
    /\ pc = "d_fit"
    /\ nfev < MaxCalls
    /\ LET x == np_repeat2(stokes_i)
           pas == np_repeat2(angles)
           alts == np_repeat2(altitudes)
           sys == [master EXCEPT !.derotator.epsilon = c[1], !.derotator.phi = Deg(c[2]),
                                 !.m3.epsilon = c[3], !.m3.phi = Deg(c[4])]
           at(n) == [sys EXCEPT !.pa = pas[n], !.m3.theta = alts[n],
                                !.beam = IF (n - 1) % 2 = 0 THEN "o" ELSE "e"]
       IN  /\ I_sys' = [n \in 1..6 |-> intensity(evaluate(at(n)), x[n])]
           /\ master' = at(6)
    /\ nfev' = nfev + 1
    /\ UNCHANGED <<tvars, pc, find, stokes, woll, data, values, result, truth, sys_mm, m_system, i_vec,
                   noise, th, stokes_i, stokes_f, noisy_f, estimate, report>>

\* curve_fit returns popt, and estimate.append(popt)
curve_fit_return(popt) ==
    /\ pc = "d_fit"
    /\ nfev >= 1
    /\ estimate' = Append(estimate, popt)
    /\ IF th = Len(hwp)
       THEN pc' = "d_report" /\ UNCHANGED th
       ELSE pc' = "d_theta" /\ th' = th + 1
    /\ UNCHANGED <<tvars, find, stokes, woll, data, values, result, truth, svars,
                   noise, stokes_i, stokes_f, noisy_f, nfev, I_sys, report>>

\* fit_model: the array error
percent_error(mean) ==
    << RAbs(RTimes(RDiv(RSub(mean[1], Rat(derotator_d_i, 1)), Rat(derotator_d_i, 1)), 100)),
       RAbs(RTimes(RDiv(RSub(mean[2], Rat(derotator_r_i, 1)), mean[2]), 100)),
       RAbs(RTimes(RDiv(RSub(mean[3], Rat(m3_d_i, 1)), Rat(m3_d_i, 1)), 100)),
       RAbs(RTimes(RDiv(RSub(mean[4], Rat(m3_r_i, 1)), Rat(m3_r_i, 1)), 100)) >>

\* fit_model: the report of the estimated values
fit_report ==
    /\ pc = "d_report"
    /\ LET mean == [k \in 1..4 |-> np_mean(estimate, k)]
       IN  report' = [mean |-> mean, error |-> percent_error(mean)]
    /\ pc' = "pause"
    /\ UNCHANGED <<tvars, find, stokes, woll, data, values, result, truth, svars,
                   noise, th, stokes_i, stokes_f, noisy_f, estimate, nfev, I_sys>>

(***************************************************************************)
(* final_offline_mm: option c and track_plot                               *)
(***************************************************************************)
\* the most targets entered in one run of option c
MaxTargets == 2

\* hour angles and declinations a user enters, in degrees
HourAngles == {0, 30}
Declinations == {20, 40}

\* the hour angles np.arange(start_ha, start_ha + 45, 0.001) of a track,
\* sampled at its start and 30 degrees later
TrackOffsets == <<0, 30>>

\* track_plot: angles, the parallactic angle formula at hour angle ha and
\* declination dec (degrees), in hundredths of a degree
parallactic(ha, dec) ==
    CASE ha = 0 -> Deg(0)
      [] ha = 30 /\ dec = 20 -> Deg(8513)
      [] ha = 30 /\ dec = 40 -> Deg(-6071)
      [] ha = 60 /\ dec = 20 -> Deg(7904)
      [] ha = 60 /\ dec = 40 -> Deg(-8701)

\* track_plot: altitudes, the altitude formula
altitude(ha, dec) ==
    CASE ha = 0 /\ dec = 20 -> Deg(8983)
      [] ha = 0 /\ dec = 40 -> Deg(6983)
      [] ha = 30 /\ dec = 20 -> Deg(6183)
      [] ha = 30 /\ dec = 40 -> Deg(5736)
      [] ha = 60 /\ dec = 20 -> Deg(3392)
      [] ha = 60 /\ dec = 40 -> Deg(3533)

\* track_plot: hwp_angles = [0, 22.5]
hwp_angles == <<0, 2250>>

\* track_plot: the initial stokes vector
track_stokes == <<0, 1, 0, 0>>

\* option c: one pass of the loop that reads a target; after the last one
\* track_plot starts
offline_AddTarget(ha, dec, cont) ==
    /\ pc = "c_input"
    /\ Len(targets) < MaxTargets
    /\ targets' = Append(targets, <<ha, dec>>)
    /\ IF cont = "y" /\ Len(targets) + 1 < MaxTargets
       THEN UNCHANGED <<pc, hk>>
       ELSE pc' = "c_track" /\ hk' = 1
    /\ angle_plot' = <<>>
    /\ UNCHANGED <<find, stokes, woll, data, values, result, truth, svars, fvars>>

\* track_plot: the pass of the loop over the targets for target
\* j = Len(angle_plot) + 1 at HWP angle hwp_angles[hk]; after the last target
\* the two plots of this HWP angle are shown
track_step ==
    /\ pc = "c_track"
    /\ LET j == Len(angle_plot) + 1
           start_ha == targets[j][1]
           dec == targets[j][2]
           sys == [master EXCEPT !.hwp_theta = Deg(hwp_angles[hk])]
           at(n, b) == [sys EXCEPT !.pa = parallactic(start_ha + TrackOffsets[n], dec),
                                   !.m3.theta = altitude(start_ha + TrackOffsets[n], dec),
                                   !.beam = b]
           wollaston_data ==
               [n \in 1..Len(TrackOffsets) |->
                   [I1 |-> intensity(evaluate(at(n, "o")), track_stokes),
                    I2 |-> intensity(evaluate(at(n, "e")), track_stokes)]]
       IN  /\ master' = at(Len(TrackOffsets), "e")
           /\ IF j < Len(targets)
              THEN /\ angle_plot' = Append(angle_plot, wollaston_data)
                   /\ UNCHANGED <<pc, hk>>
              ELSE /\ angle_plot' = <<>>
                   /\ IF hk < Len(hwp_angles)
                      THEN hk' = hk + 1 /\ UNCHANGED pc
                      ELSE hk' = hk /\ pc' = "pause"
    /\ UNCHANGED <<find, stokes, woll, data, values, result, truth, sys_mm, m_system, i_vec,
                   fvars, targets>>

NextOffline ==
    \/ \E choice \in {"a", "b", "c", "d", "e", "E", "x"} : offline_Menu(choice) /\ UNCHANGED rvars
    \/ \E line \in StokesLines : offline_EnterStokes(line) /\ UNCHANGED rvars
    \/ \E plot \in {"y", "n"} : offline_PlotChoice(plot) /\ UNCHANGED rvars
    \/ offline_ClosePlot /\ UNCHANGED rvars
    \/ \E I \in IntensityPairs, h \in OfflineHwpDegrees, s \in OfflineSkyDegrees, cont \in {"y", "n"} :
          offline_AddSample(I, h, s, cont) /\ UNCHANGED rvars
    \/ on_sky_row /\ UNCHANGED rvars
    \/ \E outcome \in {"stokes", "LinAlgError"} : on_sky_inv(outcome) /\ UNCHANGED rvars
    \/ offline_Pause /\ UNCHANGED rvars
    \/ \E snr \in NoiseInputs : fit_start(snr) /\ UNCHANGED rvars
    \/ fit_forward /\ UNCHANGED rvars
    \/ \E c \in Feasible : system_call(c) /\ UNCHANGED rvars
    \/ \E popt \in Feasible : curve_fit_return(popt) /\ UNCHANGED rvars
    \/ fit_report /\ UNCHANGED rvars
    \/ \E ha \in HourAngles, dec \in Declinations, cont \in {"y", "n"} :
          offline_AddTarget(ha, dec, cont) /\ UNCHANGED rvars
    \/ track_step /\ UNCHANGED rvars

InitOfflineAll == InitOffline /\ RotIdle

SpecOffline == InitOfflineAll /\ [][NextOffline]_vars

(***************************************************************************)
(* Properties                                                              *)
(***************************************************************************)
\* on_sky has been called on the samples in values
Solved == result.kind # "none"

PairsDistinct(vals) ==
    \A a, b \in 1..Len(vals) : a # b => <<vals[a][3], vals[a][4]>> # <<vals[b][3], vals[b][4]>>

SameAngles(vals) ==
    \A a, b \in 1..Len(vals) : vals[a][3] = vals[b][3] /\ vals[a][4] = vals[b][4]

\* C1 (as claimed): on noiseless samples of a Stokes vector at four or more
\* pairwise different (HWP, parallactic) angle pairs, on_sky returns that
\* Stokes vector.
C1_RoundTrip ==
    (Solved /\ Len(values) >= 4 /\ PairsDistinct(values)) =>
        /\ result.kind = "stokes"
        /\ \A k \in 1..4 : result.num[k] = result.den * truth[k]

\* C2: on_sky on one or more samples that all carry the same HWP angle and
\* the same parallactic angle returns no Stokes vector; it ends in the
\* singular-matrix error of inv, the normal-equation matrix being singular.
C2_SameAnglesSingular ==
    (Solved /\ Len(values) >= 1 /\ SameAngles(values)) =>
        /\ result.kind = "LinAlgError"
        /\ Det4(normal_x4(m_system_x2(values))) = 0

C2_Witness ==
    /\ pc = "crashed"
    /\ Len(values) = 3
    /\ SameAngles(values)
    /\ values[1][3] = 1
    /\ result.kind = "LinAlgError"

\* C3 (as claimed): with fewer than 2 samples the outcome of on_sky is an
\* invalid-sample-count failure, distinct from the singular-system failure,
\* handed to the caller as a value: no exception leaves main.
C3_InvalidSampleCount ==
    (Solved /\ Len(values) < 2) =>
        /\ result.kind = "InvalidSampleCount"
        /\ pc # "crashed"

\* C5: the first components of the two beams returned by wollaston sum to
\* the input intensity I, and so do the two beams behind any rotation t(a).
C5_BeamsSumToI ==
    pc \in {"a_plot", "a_show"} =>
        /\ woll[1][1] + woll[2][1] = stokes[1]
        /\ \A a \in Grid :
              beams_at(a, stokes)[1][1] + beams_at(a, stokes)[2][1] = stokes[1]

C5_Witness ==
    /\ pc = "a_plot"
    /\ stokes = <<200, -60, 80, 0>>
    /\ woll[1][1] = 70
    /\ woll[2][1] = 130

\* C6: for every angle a and every 4x4 matrix M, t(-a) @ t(a) @ M = M.
C6_RotateBackIdentity == rotPc = "back" => rotOut = rotM

C6_Witness ==
    /\ rotPc = "back"
    /\ rotA = 1
    /\ rotM[2] = <<5, 6, 7, 8>>
    /\ rotOut = rotM

\* C7: t(a) leaves the I and V rows alone and mixes the Q and U rows with
\* cos(4a) and sin(4a): t(a + 90 degrees) = t(a), t(45 degrees) negates Q and
\* U, and t(22.5 degrees) maps (I, Q, U, V) to (I, U, -Q, V).
C7_FourTimesAngle ==
    rotPc = "rotated" =>
        /\ rotOut[1] = rotM[1]
        /\ rotOut[4] = rotM[4]
        /\ \A c \in 1..4 :
              /\ rotOut[2][c] = math_cos(4 * rotA) * rotM[2][c] + math_sin(4 * rotA) * rotM[3][c]
              /\ rotOut[3][c] = math_cos(4 * rotA) * rotM[3][c] - math_sin(4 * rotA) * rotM[2][c]
        /\ rotOut = MatMul(t(rotA + 4), rotM)
        /\ rotA = 2 => \A c \in 1..4 : rotOut[2][c] = 0 - rotM[2][c] /\ rotOut[3][c] = 0 - rotM[3][c]
        /\ rotA = 1 => \A c \in 1..4 : rotOut[2][c] = rotM[3][c] /\ rotOut[3][c] = 0 - rotM[2][c]

C7_Witness ==
    /\ rotPc = "rotated"
    /\ rotA = 1
    /\ rotM[2] = <<5, 6, 7, 8>>
    /\ rotOut[2] = <<9, 10, 11, 12>>
    /\ rotOut[3] = <<-5, -6, -7, -8>>

\* C4 (as claimed): every angle written to HalfwaveRetarder theta, Rotator pa
\* or DiattenuatorRetarder theta, in the master system or in a local one, is
\* a number of degrees.
C4_DegreesEverywhere ==
    /\ master.hwp_theta.u = "deg"
    /\ master.pa.u = "deg"
    /\ master.derotator.theta.u = "deg"
    /\ master.m3.theta.u = "deg"
    /\ \A a \in DOMAIN data : data[a].theta.u = "deg"
    /\ pc \in {"a_show", "b_rows", "b_inv"} => sys_mm.hwp_theta.u = "deg" /\ sys_mm.pa.u = "deg"

\* the percent error of a mean relative to the original value g
ErrorVsOriginal(mean, g) == RAbs(RTimes(RDiv(RSub(mean, Rat(g, 1)), Rat(g, 1)), 100))

Originals == <<derotator_d_i, derotator_r_i, m3_d_i, m3_r_i>>

\* C8 (as claimed): fit_model reports for each of the four parameters the
\* mean of the four estimates and the percent error |mean - original| /
\* original * 100.
C8_ErrorsVsOriginal ==
    pc = "pause" /\ Len(estimate) = 4 =>
        \A k \in 1..4 :
            /\ REq(report.mean[k],
                   Rat(estimate[1][k] + estimate[2][k] + estimate[3][k] + estimate[4][k], 4))
            /\ REq(report.error[k], ErrorVsOriginal(report.mean[k], Originals[k]))

\* cos and sin of a number of degrees given in hundredths, in units of 1e-4
cos_deg(x) ==
    CASE x = 0 -> 10000
      [] x = 4500 -> 7071
      [] x = 9000 -> 0
      [] x = 12000 -> -5000

sin_deg(x) ==
    CASE x = 0 -> 0
      [] x = 4500 -> 7071
      [] x = 9000 -> 10000
      [] x = 12000 -> 8660

\* C9 (as claimed): in fit_model the true Stokes vector of target k at HWP
\* angle theta, the angle written to the HWP element, is
\* (1, p cos(2 theta), p sin(2 theta), 0); at 45 degrees it is (1, 0, p, 0).
C9_TrueStokes ==
    pc = "d_fit" =>
        \A k \in 1..3 :
            /\ stokes_i[k] = <<100000000, p[k] * cos_deg(2 * master.hwp_theta.v),
                                p[k] * sin_deg(2 * master.hwp_theta.v), 0>>
            /\ master.hwp_theta.v = 4500 => stokes_i[k] = <<100000000, 0, p[k] * 10000, 0>>

\* C10: the bounds of the curve fit are [0,1], [0,360], [0,1], [0,360] in
\* the order (dd, dr, md, mr): every value system writes to the derotator
\* and to m3 during the fit, every estimate and every reported mean has its
\* diattenuations in [0,1] and its retardances in [0,360].
C10_EstimatesInBounds ==
    /\ \A j \in 1..Len(estimate) :
          /\ estimate[j][1] \in 0..10000
          /\ estimate[j][2] \in 0..36000
          /\ estimate[j][3] \in 0..10000
          /\ estimate[j][4] \in 0..36000
    /\ pc = "d_fit" /\ nfev > 0 =>
          /\ master.derotator.epsilon \in 0..10000
          /\ master.derotator.phi.v \in 0..36000
          /\ master.m3.epsilon \in 0..10000
          /\ master.m3.phi.v \in 0..36000
    /\ pc = "pause" /\ Len(estimate) = 4 =>
          /\ RLeq(Rat(0, 1), report.mean[1]) /\ RLeq(report.mean[1], Rat(10000, 1))
          /\ RLeq(Rat(0, 1), report.mean[2]) /\ RLeq(report.mean[2], Rat(36000, 1))
          /\ RLeq(Rat(0, 1), report.mean[3]) /\ RLeq(report.mean[3], Rat(10000, 1))
          /\ RLeq(Rat(0, 1), report.mean[4]) /\ RLeq(report.mean[4], Rat(36000, 1))

C10_Witness ==
    /\ pc = "pause"
    /\ Len(estimate) = 4
    /\ estimate[1] = <<10000, 36000, 10000, 36000>>
    /\ estimate[2] = <<0, 0, 0, 0>>
    /\ report.mean[2] = Rat(72000, 4)

(***************************************************************************)
(* C11: every Stokes vector that reaches the forward model has exactly     *)
(* four components.  In option a wollaston has not been called while the   *)
(* prompt is still being repeated, and once it has been called the line    *)
(* that was accepted has four tokens; the vectors fit_model and track_plot *)
(* build have four components; a vector on_sky returned has four.          *)
(***************************************************************************)
C11_FourComponents ==
    /\ pc = "a_input" => woll = <<>>
    /\ pc \in {"a_plot", "a_show"} =>
          /\ Len(stokes) = 4
          /\ DOMAIN woll = 1..2
          /\ \A k \in 1..2 : woll[k].stokes = stokes
    /\ pc = "a_show" => \A a \in Grid : Len(data[a].I1.stokes) = 4 /\ Len(data[a].I2.stokes) = 4
    /\ \A k \in DOMAIN stokes_i : Len(stokes_i[k]) = 4
    /\ \A n \in DOMAIN stokes_f : Len(stokes_f[n].stokes) = 4
    /\ \A n \in DOMAIN I_sys : Len(I_sys[n].stokes) = 4
    /\ \A j \in DOMAIN angle_plot : \A n \in DOMAIN angle_plot[j] :
          Len(angle_plot[j][n].I1.stokes) = 4 /\ Len(angle_plot[j][n].I2.stokes) = 4
    /\ result.kind = "stokes" => Len(result.num) = 4

\* option a has accepted a line of four tokens and wollaston was called on it
C11_Witness ==
    /\ pc = "a_plot"
    /\ stokes = <<200, -60, 80, 0>>
    /\ woll[2].stokes = stokes
    /\ woll[2].mm.beam = "e"

(***************************************************************************)
(* C12: for n samples on_sky builds a design matrix A of 2n rows and 4     *)
(* columns and an intensity vector b of 2n entries; counting from 1, row   *)
(* 2j-1 is the first row of the system matrix of the positive beam at the  *)
(* HWP and parallactic angle of sample j with entry 2j-1 its I_pos, and    *)
(* row 2j is that of the negative beam with entry 2j its I_neg; the result *)
(* solves the normal equations (A^T A) x = A^T b, and there is none when   *)
(* A^T A is singular.  A is held doubled and A^T A times four.             *)
(***************************************************************************)
C12_DesignMatrix ==
    pc \in {"b_solve", "crashed"} \/ Solved =>
        LET n == Len(values)
            A == m_system_x2(values)
            b == i_vector(values)
            N == [r \in 1..4 |-> [c \in 1..4 |->
                    SumTo([k \in 1..(2 * n) |-> A[k][r] * A[k][c]], 2 * n)]]
            Atb == [r \in 1..4 |-> SumTo([k \in 1..(2 * n) |-> A[k][r] * b[k]], 2 * n)]
        IN  /\ DOMAIN A = 1..(2 * n)
            /\ DOMAIN b = 1..(2 * n)
            /\ \A r \in 1..(2 * n) : DOMAIN A[r] = 1..4
            /\ \A j \in 1..n :
                  /\ A[2 * j - 1] = MatMul(MatMul(m_woll_pos, t(values[j][3])), t(values[j][4]))[1]
                  /\ b[2 * j - 1] = values[j][1]
                  /\ A[2 * j] = MatMul(MatMul(m_woll_neg, t(values[j][3])), t(values[j][4]))[1]
                  /\ b[2 * j] = values[j][2]
            /\ Solved =>
                  /\ result.kind = "LinAlgError" <=> Det4(N) = 0
                  /\ result.kind = "stokes" =>
                        \A r \in 1..4 : Dot4(N[r], result.num) = 2 * result.den * Atb[r]

\* on_sky has run on two samples taken at different angles, so that the
\* order of the rows shows
C12_Witness ==
    /\ Solved
    /\ Len(values) = 2
    /\ values[1][3] = 0 /\ values[1][4] = 0
    /\ values[2][3] = 2 /\ values[2][4] = 0
    /\ m_system_x2(values)[2] = <<1, -1, 0, 0>>
    /\ m_system_x2(values)[3] = <<1, -1, 0, 0>>

(***************************************************************************)
(* C13: in every call of system made by the curve fit, flattened sample n  *)
(* (n = 0..5) is evaluated with beam 'o' for even n and 'e' for odd n and  *)
(* with the Stokes vector, parallactic angle and altitude of target        *)
(* floor(n/2), which is the target and beam whose noisy intensity is at    *)
(* index n of the data given to curve_fit.                                 *)
(***************************************************************************)
C13_BeamAlternation ==
    pc = "d_fit" /\ nfev > 0 =>
        /\ DOMAIN I_sys = 1..6
        /\ DOMAIN noisy_f = 1..6
        /\ \A n \in 0..5 :
              LET j == n \div 2 + 1
                  e == I_sys[n + 1]
                  d == noisy_f[n + 1].mean
              IN  /\ e.mm.beam = (IF n % 2 = 0 THEN "o" ELSE "e")
                  /\ e.stokes = stokes_i[j]
                  /\ e.mm.pa = angles[j]
                  /\ e.mm.m3.theta = altitudes[j]
                  /\ d.mm.beam = e.mm.beam
                  /\ d.stokes = e.stokes
                  /\ d.mm.pa = e.mm.pa
                  /\ d.mm.m3.theta = e.mm.m3.theta

\* the second call of system in the fit for 22.5 degrees, made with a
\* candidate that is not the original values
C13_Witness ==
    /\ pc = "d_fit"
    /\ th = 2
    /\ nfev = 2
    /\ I_sys[4].mm.beam = "e"
    /\ I_sys[4].stokes = stokes_i[2]
    /\ I_sys[4].mm.derotator.epsilon # derotator_d_i

(***************************************************************************)
(* C14: for each of the four HWP angles, every evaluation that generates   *)
(* the noiseless intensities is made with the original parameters          *)
(* (derotator epsilon 0.9662 and phi 186.6, m3 epsilon 0.9761 and phi      *)
(* 186.6), whatever candidate the curve fit of an earlier HWP angle last   *)
(* wrote to the derotator and to m3.                                       *)
(***************************************************************************)
C14_GroundTruthForward ==
    \A n \in DOMAIN stokes_f :
        /\ stokes_f[n].mm.derotator.epsilon = derotator_d_i
        /\ stokes_f[n].mm.derotator.phi = Deg(derotator_r_i)
        /\ stokes_f[n].mm.m3.epsilon = m3_d_i
        /\ stokes_f[n].mm.m3.phi = Deg(m3_r_i)

\* the noiseless intensities of the second HWP angle have been generated,
\* after the curve fit of the first one has called system
C14_Witness ==
    /\ pc = "d_fit"
    /\ th = 2
    /\ nfev = 0
    /\ Len(estimate) = 1
    /\ DOMAIN stokes_f = 1..6
    /\ stokes_f[1].mm.hwp_theta = Deg(2250)
    /\ stokes_f[6].mm.derotator.epsilon = derotator_d_i

(***************************************************************************)
(* C15: a call of system changes only the derotator epsilon and phi, the   *)
(* m3 epsilon, phi and theta, the Rotator pa and the Wollaston beam; it    *)
(* leaves HalfwaveRetarder theta and the derotator theta as they were, and *)
(* every evaluation it makes during the curve fit for HWP angle theta has  *)
(* HalfwaveRetarder theta = theta and derotator theta = 0.  A call of      *)
(* system is the step of the curve fit that counts one more evaluation.    *)
(***************************************************************************)
C15_SystemFrame ==
    [][ pc = "d_fit" /\ nfev' = nfev + 1 =>
          /\ master'.hwp_theta = master.hwp_theta
          /\ master'.derotator.theta = master.derotator.theta
          /\ [master' EXCEPT !.derotator.epsilon = master.derotator.epsilon,
                              !.derotator.phi = master.derotator.phi,
                              !.m3 = master.m3,
                              !.pa = master.pa,
                              !.beam = master.beam] = master
          /\ sys_mm' = sys_mm
          /\ \A n \in DOMAIN I_sys' :
                /\ I_sys'[n].mm.hwp_theta = Deg(hwp[th])
                /\ I_sys'[n].mm.derotator.theta = Deg(0) ]_vars

\* system has been called in the curve fit for the last HWP angle, 60 degrees
C15_Witness ==
    /\ pc = "d_fit"
    /\ th = 4
    /\ nfev = 2
    /\ master.hwp_theta = Deg(6000)
    /\ master.derotator.theta = Deg(0)
    /\ I_sys[6].mm.hwp_theta = Deg(6000)
    /\ I_sys[6].mm.m3.theta = altitudes[3]

(***************************************************************************)
(* C16: the evaluations of track_plot for a given target list do not       *)
(* depend on the menu operations that ran before it in the session: each   *)
(* one is made with the parameters it has when track_plot is the first     *)
(* operation, the derotator and m3 as constructed except for the m3 theta  *)
(* that track_plot writes itself.                                          *)
(***************************************************************************)
C16_TrackIndependent ==
    pc = "c_track" =>
        \A j \in DOMAIN angle_plot : \A n \in DOMAIN angle_plot[j] :
            LET ha == targets[j][1] + TrackOffsets[n]
                dec == targets[j][2]
                first(b) == [master_sys_mm EXCEPT !.hwp_theta = Deg(hwp_angles[hk]),
                                                  !.pa = parallactic(ha, dec),
                                                  !.m3.theta = altitude(ha, dec),
                                                  !.beam = b]
            IN  /\ angle_plot[j][n].I1.mm = first("o")
                /\ angle_plot[j][n].I2.mm = first("e")

(***************************************************************************)
(* C17: in manual_mm.on_sky the row of the positive beam of a sample with  *)
(* HWP angle h and parallactic angle s is 0.5 * [1, cos 4(h+s),            *)
(* sin 4(h+s), 0] and the row of the negative beam is 0.5 * [1,            *)
(* -cos 4(h+s), -sin 4(h+s), 0]: h and s enter only through h + s, and the *)
(* fourth entry of every row is 0.  The rows are held doubled.             *)
(***************************************************************************)
C17_RowsOfSum ==
    \A j \in DOMAIN values :
        LET hs == values[j][3] + values[j][4]
            A == m_system_x2(values)
        IN  /\ A[2 * j - 1] = <<1, math_cos(4 * hs), math_sin(4 * hs), 0>>
            /\ A[2 * j] = <<1, 0 - math_cos(4 * hs), 0 - math_sin(4 * hs), 0>>

\* on_sky has run on a sample with both angles at 22.5 degrees, where
\* 4(h+s) is a half turn
C17_Witness ==
    /\ Solved
    /\ Len(values) >= 1
    /\ values[1][3] = 1
    /\ values[1][4] = 1
    /\ m_system_x2(values)[1] = <<1, -1, 0, 0>>
    /\ m_system_x2(values)[2] = <<1, 1, 0, 0>>

(***************************************************************************)
(* C18: the session of manual_mm ends, with "Program ended." printed,      *)
(* exactly when the user enters the quit choice "c" in either case; after  *)
(* any other choice, and whatever the outcome of the operation chosen, the *)
(* session goes on to the menu prompt.  A session is over when main has    *)
(* returned or an exception has left it.                                   *)
(***************************************************************************)
C18_EndsOnlyOnQuit ==
    /\ pc \in {"done", "crashed"} => pc = "done" /\ find = "c"
    /\ find = "c" => pc = "done"

====
